---- MODULE Spec2Model ----
(***************************************************************************)
(* Model of mcp_server/custom_types_utils.py: the builders that turn JSON  *)
(* text or pre-parsed dicts into record types and into the table of edge   *)
(* types allowed per entity pair.                                          *)
(*                                                                         *)
(* Representation.  A key string of an edge mapping is a sequence of one-  *)
(* character strings, so that startswith/endswith/slicing/split/strip act  *)
(* on characters.  Entity names, field names and type-name strings are     *)
(* atoms.  A JSON value is [json, items, obj]; a Python value is           *)
(* [type, items, obj]; json.loads translates the one into the other.  A    *)
(* Python dict is a sequence of <<key, value>> with distinct keys, in      *)
(* insertion order.  An exception message is the sequence of the pieces    *)
(* its f-string concatenates.                                              *)
(***************************************************************************)
EXTENDS Naturals, Sequences, FiniteSets, TLC

VARIABLES input, called, outcome

vars == <<input, called, outcome>>

(***************************************************************************)
(* Bounds of the checked inputs.                                           *)
(***************************************************************************)
MaxEntries == 3

MaxTypes == 2

MaxKeyLen == 4

MaxNameLen == 2

MaxFields == 2

(***************************************************************************)
(* Python str methods used by the key parser.                              *)
(***************************************************************************)
IsPrefixAt(s, p, i) ==
    /\ i + Len(p) - 1 <= Len(s)
    /\ \A j \in 1..Len(p) : s[i + j - 1] = p[j]

startswith(s, p) == IsPrefixAt(s, p, 1)

\* endswith that looks at the last character only
endswith_LastChar(s, p) == s # <<>> /\ s[Len(s)] = p[Len(p)]

endswith(s, p) == Len(p) <= Len(s) /\ IsPrefixAt(s, p, Len(s) - Len(p) + 1)

\* s[2:-2]
SliceTwoMinusTwo(s) ==
    IF Len(s) <= 4 THEN <<>> ELSE SubSeq(s, 3, Len(s) - 2)

RECURSIVE FindFrom(_, _, _)
\* index of the first occurrence of sep in s at or after i; 0 if none
FindFrom(s, sep, i) ==
    IF i + Len(sep) - 1 > Len(s) THEN 0
    ELSE IF IsPrefixAt(s, sep, i) THEN i
    ELSE FindFrom(s, sep, i + 1)

RECURSIVE split(_, _)
split(s, sep) ==
    LET i == FindFrom(s, sep, 1)
    IN  IF i = 0 THEN <<s>>
        ELSE <<SubSeq(s, 1, i - 1)>> \o split(SubSeq(s, i + Len(sep), Len(s)), sep)

RECURSIVE lstrip(_, _)
lstrip(s, chars) ==
    IF s # <<>> /\ Head(s) \in chars THEN lstrip(Tail(s), chars) ELSE s

RECURSIVE rstrip(_, _)
rstrip(s, chars) ==
    IF s # <<>> /\ s[Len(s)] \in chars THEN rstrip(SubSeq(s, 1, Len(s) - 1), chars) ELSE s

\* strip that trims the right end only
strip_RightOnly(s, chars) == rstrip(s, chars)

strip(s, chars) == rstrip(lstrip(s, chars), chars)

Whitespace == {" "}

QuoteChars == {"'", "\""}

(***************************************************************************)
(* Python dict and exceptions.                                             *)
(***************************************************************************)
RECURSIVE DictIndex(_, _, _)
DictIndex(d, k, i) ==
    IF i > Len(d) THEN 0
    ELSE IF d[i][1] = k THEN i
    ELSE DictIndex(d, k, i + 1)

\* a store that leaves an existing key alone
DictSet_KeepFirst(d, k, v) ==
    IF DictIndex(d, k, 1) = 0 THEN Append(d, <<k, v>>) ELSE d

\* d[k] = v : an existing key keeps its position, a new key goes last
DictSet(d, k, v) ==
    LET i == DictIndex(d, k, 1)
    IN  IF i = 0 THEN Append(d, <<k, v>>)
        ELSE [d EXCEPT ![i] = <<k, v>>]

NoExc == [cls |-> "", msg |-> <<>>]

Exc(cls, msg) == [cls |-> cls, msg |-> msg]

Returned(table) == [raised |-> FALSE, exc |-> NoExc, table |-> table]

\* table is the local result table at the raise; the caller never sees it
Raised(e, table) == [raised |-> TRUE, exc |-> e, table |-> table]

NotCalled == [raised |-> FALSE, exc |-> NoExc, table |-> <<>>]

(***************************************************************************)
(* json.loads and json.dumps.                                              *)
(***************************************************************************)
EmptyObj ==
    [has_fields |-> FALSE, fields_kind |-> "none", fields |-> <<>>,
     has_doc |-> FALSE, docstring |-> ""]

JsonToPython ==
    [j \in {"object", "array", "string", "number", "null", "none"} |->
        CASE j = "object" -> "dict"
          [] j = "array" -> "list"
          [] j = "string" -> "str"
          [] j = "number" -> "int"
          [] j = "null" -> "NoneType"
          [] OTHER -> "none"]

PythonToJson ==
    [t \in {"dict", "list", "str", "int", "NoneType", "none"} |->
        CASE t = "dict" -> "object"
          [] t = "list" -> "array"
          [] t = "str" -> "string"
          [] t = "int" -> "number"
          [] t = "NoneType" -> "null"
          [] OTHER -> "none"]

decode_value(v) ==
    [type |-> JsonToPython[v.json], items |-> v.items,
     obj |-> [v.obj EXCEPT !.fields_kind = JsonToPython[v.obj.fields_kind]]]

encode_value(v) ==
    [json |-> PythonToJson[v.type], items |-> v.items,
     obj |-> [v.obj EXCEPT !.fields_kind = PythonToJson[v.obj.fields_kind]]]

RECURSIVE decode_object(_, _)
\* the members of a JSON object, left to right, stored into a dict
decode_object(members, d) ==
    IF members = <<>> THEN d
    ELSE decode_object(Tail(members),
                       DictSet(d, Head(members)[1], decode_value(Head(members)[2])))

\* [ok, type, data]: ok is FALSE for JSONDecodeError
json_loads(json_str) ==
    IF ~json_str.wf THEN [ok |-> FALSE, type |-> "none", data |-> <<>>]
    ELSE IF json_str.top = "object"
         THEN [ok |-> TRUE, type |-> "dict", data |-> decode_object(json_str.members, <<>>)]
         ELSE [ok |-> TRUE, type |-> JsonToPython[json_str.top], data |-> <<>>]

json_dumps(data) ==
    [wf |-> TRUE, top |-> "object",
     members |-> [i \in 1..Len(data) |-> <<data[i][1], encode_value(data[i][2])>>]]

AttributeErrorItems(type) ==
    Exc("AttributeError", <<"'", type, "' object has no attribute 'items'">>)

\* a check that takes a string for a list
isinstance_list_OrStr(edge_list) == edge_list.type \in {"list", "str"}

\* isinstance(edge_list, list)
isinstance_list(edge_list) == edge_list.type = "list"

(***************************************************************************)
(* parse_json_to_edge_mappings                                             *)
(***************************************************************************)
\* the body of the for loop for one item; st is [raised, exc, table]
parse_json_to_edge_mappings_body(st, key_str, edge_list) ==
    IF ~startswith(key_str, <<"(", "'">>) \/ ~endswith(key_str, <<"'", ")">>)
    THEN Raised(Exc("ValueError",
                    <<"Invalid edge mapping key format: '">> \o key_str
                    \o <<"'. Expected format: \"('Source', 'Target')\"">>),
                st.table)
    ELSE
      LET content == SliceTwoMinusTwo(key_str)
          raw == split(content, <<"'", ",">>)
          parts == [i \in 1..Len(raw) |-> strip(strip(raw[i], Whitespace), QuoteChars)]
          wrap(e) == Raised(Exc("ValueError",
                                <<"Failed to parse edge mapping key '">> \o key_str
                                \o <<"': ">> \o e),
                            st.table)
      IN  IF Len(parts) # 2
          THEN wrap(<<"Edge mapping key must have exactly 2 entities: '">>
                    \o key_str \o <<"'">>)
          ELSE IF ~isinstance_list(edge_list)
          THEN wrap(<<"Edge list for key '">> \o key_str
                    \o <<"' must be a list, got: ", "<class '", edge_list.type, "'>">>)
          ELSE Returned(DictSet(st.table, <<parts[1], parts[2]>>, edge_list.items))

RECURSIVE parse_json_to_edge_mappings_loop_SkipInvalid(_, _)
\* a loop that drops an entry that fails and goes on
parse_json_to_edge_mappings_loop_SkipInvalid(st, items) ==
    IF items = <<>> THEN st
    ELSE LET r == parse_json_to_edge_mappings_body(st, Head(items)[1], Head(items)[2])
         IN  parse_json_to_edge_mappings_loop_SkipInvalid(IF r.raised THEN st ELSE r,
                                                          Tail(items))

RECURSIVE parse_json_to_edge_mappings_loop(_, _)
parse_json_to_edge_mappings_loop(st, items) ==
    IF st.raised \/ items = <<>> THEN st
    ELSE parse_json_to_edge_mappings_loop(
             parse_json_to_edge_mappings_body(st, Head(items)[1], Head(items)[2]),
             Tail(items))

parse_json_to_edge_mappings(json_str) ==
    LET edge_data == json_loads(json_str)
    IN  IF ~edge_data.ok
        THEN Raised(Exc("ValueError",
                        <<"Invalid JSON format for edge mappings: ", "JSONDecodeError">>),
                    <<>>)
        ELSE IF edge_data.type # "dict"
        THEN Raised(AttributeErrorItems(edge_data.type), <<>>)
        ELSE parse_json_to_edge_mappings_loop(Returned(<<>>), edge_data.data)

(***************************************************************************)
(* convert_edge_mappings                                                   *)
(***************************************************************************)
convert_edge_mappings_body(st, key_str, edge_list) ==
    IF ~startswith(key_str, <<"(", "'">>) \/ ~endswith(key_str, <<"'", ")">>)
    THEN Raised(Exc("ValueError",
                    <<"Invalid edge mapping key format: '">> \o key_str
                    \o <<"'. Expected format: \"('Source', 'Target')\"">>),
                st.table)
    ELSE
      LET content == SliceTwoMinusTwo(key_str)
          raw == split(content, <<"'", ",">>)
          parts == [i \in 1..Len(raw) |-> strip(strip(raw[i], Whitespace), QuoteChars)]
          wrap(e) == Raised(Exc("ValueError",
                                <<"Failed to parse edge mapping key '">> \o key_str
                                \o <<"': ">> \o e),
                            st.table)
      IN  IF Len(parts) # 2
          THEN wrap(<<"Edge mapping key must have exactly 2 entities: '">>
                    \o key_str \o <<"'">>)
          ELSE IF ~isinstance_list(edge_list)
          THEN wrap(<<"Edge list for key '">> \o key_str
                    \o <<"' must be a list, got: ", "<class '", edge_list.type, "'>">>)
          ELSE Returned(DictSet(st.table, <<parts[1], parts[2]>>, edge_list.items))

RECURSIVE convert_edge_mappings_loop_SkipInvalid(_, _)
\* a loop that drops an entry that fails and goes on
convert_edge_mappings_loop_SkipInvalid(st, items) ==
    IF items = <<>> THEN st
    ELSE LET r == convert_edge_mappings_body(st, Head(items)[1], Head(items)[2])
         IN  convert_edge_mappings_loop_SkipInvalid(IF r.raised THEN st ELSE r,
                                                    Tail(items))

RECURSIVE convert_edge_mappings_loop(_, _)
convert_edge_mappings_loop(st, items) ==
    IF st.raised \/ items = <<>> THEN st
    ELSE convert_edge_mappings_loop(
             convert_edge_mappings_body(st, Head(items)[1], Head(items)[2]),
             Tail(items))

convert_edge_mappings(edge_data) ==
    convert_edge_mappings_loop(Returned(<<>>), edge_data)

(***************************************************************************)
(* TYPE_MAPPING and pydantic.create_model                                  *)
(***************************************************************************)
\* the items of TYPE_MAPPING in definition order: <<type name, Python type>>
TYPE_MAPPING_items ==
    << <<"str", "<class 'str'>">>,
       <<"int", "<class 'int'>">>,
       <<"float", "<class 'float'>">>,
       <<"bool", "<class 'bool'>">>,
       <<"list", "<class 'list'>">>,
       <<"dict", "<class 'dict'>">>,
       <<"List[str]", "typing.List[str]">>,
       <<"List[int]", "typing.List[int]">>,
       <<"List[float]", "typing.List[float]">>,
       <<"Dict[str, Any]", "typing.Dict[str, typing.Any]">>,
       <<"Dict[str, str]", "typing.Dict[str, str]">>,
       <<"Dict[str, int]", "typing.Dict[str, int]">> >>

\* list(TYPE_MAPPING.keys())
TYPE_MAPPING_keys == [i \in 1..Len(TYPE_MAPPING_items) |-> TYPE_MAPPING_items[i][1]]

TYPE_MAPPING ==
    [t \in {TYPE_MAPPING_items[i][1] : i \in 1..Len(TYPE_MAPPING_items)} |->
        TYPE_MAPPING_items[DictIndex(TYPE_MAPPING_items, t, 1)][2]]

\* the default of a field declared as (type, ...)
Ellipsis == "..."

\* __doc__ of a model created without a docstring
DefaultDoc == "None"

\* pydantic 2 refuses field names with a leading underscore (NameError)
LeadingUnderscore == {"_id"}

\* create_model(name, **fields): [ok, model, err]
create_model(name, pydantic_fields) ==
    IF \E i \in 1..Len(pydantic_fields) : pydantic_fields[i][1] \in LeadingUnderscore
    THEN [ok |-> FALSE, model |-> <<>>,
          err |-> <<"Fields must not use names with leading underscores">>]
    ELSE [ok |-> TRUE,
          model |-> <<[name |-> name,
                       doc |-> DefaultDoc,
                       fields |-> [i \in 1..Len(pydantic_fields) |->
                                     [field |-> pydantic_fields[i][1],
                                      annotation |-> pydantic_fields[i][2][1],
                                      required |-> pydantic_fields[i][2][2] = Ellipsis]]]>>,
          err |-> <<>>]

(***************************************************************************)
(* parse_json_to_entity_types                                              *)
(***************************************************************************)
RECURSIVE parse_json_to_entity_types_fields_Optional(_, _, _)
\* an inner loop that declares every field with the default None
parse_json_to_entity_types_fields_Optional(st, items, entity_name) ==
    IF st.raised \/ items = <<>> THEN st
    ELSE
      LET field_name == Head(items)[1]
          field_type_str == Head(items)[2]
      IN  parse_json_to_entity_types_fields_Optional(
            IF field_type_str \notin DOMAIN TYPE_MAPPING
            THEN Raised(Exc("TypeError",
                            <<"Unsupported field type '", field_type_str,
                              "' for field '", field_name,
                              "' in entity '", entity_name,
                              "'. Supported types: ">> \o TYPE_MAPPING_keys),
                        st.table)
            ELSE Returned(DictSet(st.table, field_name,
                                  <<TYPE_MAPPING[field_type_str], "None">>)),
            Tail(items), entity_name)

RECURSIVE parse_json_to_entity_types_fields(_, _, _)
\* the inner for loop: [raised, exc, table] with table the pydantic_fields
parse_json_to_entity_types_fields(st, items, entity_name) ==
    IF st.raised \/ items = <<>> THEN st
    ELSE
      LET field_name == Head(items)[1]
          field_type_str == Head(items)[2]
      IN  parse_json_to_entity_types_fields(
            IF field_type_str \notin DOMAIN TYPE_MAPPING
            THEN Raised(Exc("TypeError",
                            <<"Unsupported field type '", field_type_str,
                              "' for field '", field_name,
                              "' in entity '", entity_name,
                              "'. Supported types: ">> \o TYPE_MAPPING_keys),
                        st.table)
            ELSE Returned(DictSet(st.table, field_name,
                                  <<TYPE_MAPPING[field_type_str], Ellipsis>>)),
            Tail(items), entity_name)

parse_json_to_entity_types_body(st, entity_name, entity_config) ==
    IF entity_config.type # "dict" \/ ~entity_config.obj.has_fields
    THEN Raised(Exc("ValueError", <<"Entity '", entity_name, "' must have 'fields' key">>),
                st.table)
    ELSE
      LET fields == entity_config.obj.fields
          docstring == IF entity_config.obj.has_doc THEN entity_config.obj.docstring ELSE ""
      IN  IF entity_config.obj.fields_kind # "dict"
          THEN Raised(AttributeErrorItems(entity_config.obj.fields_kind), st.table)
          ELSE
            LET pydantic_fields ==
                    parse_json_to_entity_types_fields(Returned(<<>>), fields, entity_name)
                created == create_model(entity_name, pydantic_fields.table)
            IN  IF pydantic_fields.raised
                THEN Raised(pydantic_fields.exc, st.table)
                ELSE IF ~created.ok
                THEN Raised(Exc("ValueError",
                                <<"Failed to create entity model '", entity_name, "': ">>
                                \o created.err),
                            st.table)
                ELSE
                  LET model == IF docstring # ""
                               THEN [created.model[1] EXCEPT !.doc = docstring]
                               ELSE created.model[1]
                  IN  Returned(DictSet(st.table, entity_name, model))

RECURSIVE parse_json_to_entity_types_loop(_, _)
parse_json_to_entity_types_loop(st, items) ==
    IF st.raised \/ items = <<>> THEN st
    ELSE parse_json_to_entity_types_loop(
             parse_json_to_entity_types_body(st, Head(items)[1], Head(items)[2]),
             Tail(items))

parse_json_to_entity_types(json_str) ==
    LET entity_data == json_loads(json_str)
    IN  IF ~entity_data.ok
        THEN Raised(Exc("ValueError",
                        <<"Invalid JSON format for entity types: ", "JSONDecodeError">>),
                    <<>>)
        ELSE IF entity_data.type # "dict"
        THEN Raised(AttributeErrorItems(entity_data.type), <<>>)
        ELSE parse_json_to_entity_types_loop(Returned(<<>>), entity_data.data)

(***************************************************************************)
(* parse_json_to_edge_types                                                *)
(***************************************************************************)
\* a wrapper that loses the docstrings of the types it returns
parse_json_to_edge_types_NoDoc(json_str) ==
    LET r == parse_json_to_entity_types(json_str)
    IN  IF r.raised
        THEN Raised(Exc("ValueError", <<"Failed to parse edge types: ">> \o r.exc.msg),
                    r.table)
        ELSE Returned([i \in 1..Len(r.table) |->
                          <<r.table[i][1], [r.table[i][2] EXCEPT !.doc = DefaultDoc]>>])

parse_json_to_edge_types(json_str) ==
    LET r == parse_json_to_entity_types(json_str)
    IN  IF r.raised
        THEN Raised(Exc("ValueError", <<"Failed to parse edge types: ">> \o r.exc.msg),
                    r.table)
        ELSE r

(***************************************************************************)
(* create_entity_types_from_dict                                           *)
(***************************************************************************)
RECURSIVE create_entity_types_from_dict_fields_Coerce(_, _, _)
\* an inner loop that takes an unknown type name for str
create_entity_types_from_dict_fields_Coerce(st, items, entity_name) ==
    IF st.raised \/ items = <<>> THEN st
    ELSE
      LET field_name == Head(items)[1]
          field_type_str == Head(items)[2]
      IN  create_entity_types_from_dict_fields_Coerce(
            Returned(DictSet(st.table, field_name,
                             <<IF field_type_str \in DOMAIN TYPE_MAPPING
                               THEN TYPE_MAPPING[field_type_str]
                               ELSE TYPE_MAPPING["str"],
                               Ellipsis>>)),
            Tail(items), entity_name)

RECURSIVE create_entity_types_from_dict_fields(_, _, _)
create_entity_types_from_dict_fields(st, items, entity_name) ==
    IF st.raised \/ items = <<>> THEN st
    ELSE
      LET field_name == Head(items)[1]
          field_type_str == Head(items)[2]
      IN  create_entity_types_from_dict_fields(
            IF field_type_str \notin DOMAIN TYPE_MAPPING
            THEN Raised(Exc("TypeError",
                            <<"Unsupported field type '", field_type_str,
                              "' for field '", field_name,
                              "' in entity '", entity_name,
                              "'. Supported types: ">> \o TYPE_MAPPING_keys),
                        st.table)
            ELSE Returned(DictSet(st.table, field_name,
                                  <<TYPE_MAPPING[field_type_str], Ellipsis>>)),
            Tail(items), entity_name)

create_entity_types_from_dict_body(st, entity_name, entity_config) ==
    IF entity_config.type # "dict" \/ ~entity_config.obj.has_fields
    THEN Raised(Exc("ValueError", <<"Entity '", entity_name, "' must have 'fields' key">>),
                st.table)
    ELSE
      LET fields == entity_config.obj.fields
          docstring == IF entity_config.obj.has_doc THEN entity_config.obj.docstring ELSE ""
      IN  IF entity_config.obj.fields_kind # "dict"
          THEN Raised(AttributeErrorItems(entity_config.obj.fields_kind), st.table)
          ELSE
            LET pydantic_fields ==
                    create_entity_types_from_dict_fields(Returned(<<>>), fields, entity_name)
                created == create_model(entity_name, pydantic_fields.table)
            IN  IF pydantic_fields.raised
                THEN Raised(pydantic_fields.exc, st.table)
                ELSE IF ~created.ok
                THEN Raised(Exc("ValueError",
                                <<"Failed to create entity model '", entity_name, "': ">>
                                \o created.err),
                            st.table)
                ELSE
                  LET model == IF docstring # ""
                               THEN [created.model[1] EXCEPT !.doc = docstring]
                               ELSE created.model[1]
                  IN  Returned(DictSet(st.table, entity_name, model))

RECURSIVE create_entity_types_from_dict_loop(_, _)
create_entity_types_from_dict_loop(st, items) ==
    IF st.raised \/ items = <<>> THEN st
    ELSE create_entity_types_from_dict_loop(
             create_entity_types_from_dict_body(st, Head(items)[1], Head(items)[2]),
             Tail(items))

create_entity_types_from_dict(entity_data) ==
    create_entity_types_from_dict_loop(Returned(<<>>), entity_data)

(***************************************************************************)
(* The calls.  input is the argument of the call, as JSON text (form       *)
(* "text") or as a pre-parsed dict (form "data"); called names the         *)
(* function that ran and outcome is how the call ended.                    *)
(***************************************************************************)
ParseJsonToEntityTypes ==
    /\ called = "none"
    /\ input.family = "types" /\ input.form = "text"
    /\ called' = "parse_json_to_entity_types"
    /\ outcome' = parse_json_to_entity_types(input.text)
    /\ UNCHANGED input

ParseJsonToEdgeTypes ==
    /\ called = "none"
    /\ input.family = "types" /\ input.form = "text"
    /\ called' = "parse_json_to_edge_types"
    /\ outcome' = parse_json_to_edge_types(input.text)
    /\ UNCHANGED input

ParseJsonToEdgeMappings ==
    /\ called = "none"
    /\ input.family = "mappings" /\ input.form = "text"
    /\ called' = "parse_json_to_edge_mappings"
    /\ outcome' = parse_json_to_edge_mappings(input.text)
    /\ UNCHANGED input

CreateEntityTypesFromDict ==
    /\ called = "none"
    /\ input.family = "types" /\ input.form = "data"
    /\ called' = "create_entity_types_from_dict"
    /\ outcome' = create_entity_types_from_dict(input.data)
    /\ UNCHANGED input

ConvertEdgeMappings ==
    /\ called = "none"
    /\ input.family = "mappings" /\ input.form = "data"
    /\ called' = "convert_edge_mappings"
    /\ outcome' = convert_edge_mappings(input.data)
    /\ UNCHANGED input

(***************************************************************************)
(* Inputs.                                                                 *)
(***************************************************************************)
SeqsUpTo(S, n) == UNION {[1..k -> S] : k \in 0..n}

Range(f) == {f[i] : i \in DOMAIN f}

DistinctKeys(d) == \A i, j \in 1..Len(d) : i # j => d[i][1] # d[j][1]

JArray(items) == [json |-> "array", items |-> items, obj |-> EmptyObj]

JString(s) == [json |-> "string", items |-> <<s>>, obj |-> EmptyObj]

JNumber(n) == [json |-> "number", items |-> <<n>>, obj |-> EmptyObj]

JNull == [json |-> "null", items |-> <<>>, obj |-> EmptyObj]

JObject(obj) == [json |-> "object", items |-> <<>>, obj |-> obj]

TextOf(family, members) ==
    [family |-> family, form |-> "text",
     text |-> [wf |-> TRUE, top |-> "object", members |-> members],
     data |-> <<>>]

\* text that is not JSON, and JSON text whose top level is an array
OddTexts(family) ==
    {[family |-> family, form |-> "text",
      text |-> [wf |-> w, top |-> "array", members |-> <<>>],
      data |-> <<>>] : w \in BOOLEAN}

DataOf(family, members) ==
    [family |-> family, form |-> "data",
     text |-> [wf |-> TRUE, top |-> "object", members |-> <<>>],
     data |-> [i \in 1..Len(members) |-> <<members[i][1], decode_value(members[i][2])>>]]

\* "('X','Y')" and "('X', 'Y')"
Spelling(X, Y, sep) == <<"(", "'">> \o X \o <<"'", ",">> \o sep \o <<"'">> \o Y \o <<"'", ")">>

NameA == <<"A">>

NameB == <<"B">>

MappingKeys ==
    {Spelling(NameA, NameB, <<>>), Spelling(NameA, NameB, <<" ">>),
     Spelling(NameB, NameA, <<" ">>),
     <<"A", ",", "B">>,
     <<"(", "'", "A", "'", ")">>}

MappingValues == {JArray(<<"X">>), JArray(<<"Y">>), JString("X")}

MappingMembers == MappingKeys \X MappingValues

FieldsObj(fields, has_doc, docstring) ==
    [has_fields |-> TRUE, fields_kind |-> "object", fields |-> fields,
     has_doc |-> has_doc, docstring |-> docstring]

Docstrings == {<<FALSE, "">>, <<TRUE, "">>, <<TRUE, "A person">>}

SomeFieldMaps ==
    {<<>>,
     << <<"name", "str">> >>,
     << <<"name", "string">> >>,
     << <<"name", "str">>, <<"age", "List[int]">> >>,
     << <<"name", "str">>, <<"age", "datetime">> >>,
     << <<"_id", "int">> >>}

\* configs that are no object, lack 'fields', or whose 'fields' is an array
OddConfigs ==
    {JString("str"),
     JObject([EmptyObj EXCEPT !.has_doc = TRUE, !.docstring = "A person"]),
     JObject([EmptyObj EXCEPT !.has_fields = TRUE, !.fields_kind = "array"])}

SomeConfigs ==
    {JObject(FieldsObj(f, d[1], d[2])) : f \in SomeFieldMaps, d \in Docstrings}
    \cup OddConfigs

TypeMembers == {"Person", "Company"} \X SomeConfigs

InitCall == called = "none" /\ outcome = NotCalled

Init ==
    /\ InitCall
    /\ \/ \E m \in SeqsUpTo(MappingMembers, MaxEntries) :
            \/ input = TextOf("mappings", m)
            \/ DistinctKeys(m) /\ input = DataOf("mappings", m)
       \/ input \in OddTexts("mappings")
       \/ \E m \in SeqsUpTo(TypeMembers, MaxTypes) :
            \/ input = TextOf("types", m)
            \/ DistinctKeys(m) /\ input = DataOf("types", m)
       \/ input \in OddTexts("types")

Next ==
    \/ ParseJsonToEntityTypes
    \/ ParseJsonToEdgeTypes
    \/ ParseJsonToEdgeMappings
    \/ CreateEntityTypesFromDict
    \/ ConvertEdgeMappings

Spec == Init /\ [][Next]_vars

(***************************************************************************)
(* One entry under test, after nothing or after one valid entry: every     *)
(* short key string, and every spelling of a pair of names.                *)
(***************************************************************************)
KeyChars == {"(", ")", "'", ",", " ", "A"}

NameChars == {"A", ")", " "}

\* names without quote characters, commas or surrounding whitespace
Names ==
    {n \in SeqsUpTo(NameChars, MaxNameLen) :
        n = <<>> \/ (n[1] # " " /\ n[Len(n)] # " ")}

SpelledKeys == {Spelling(p[1], p[2], sep) : p \in Names \X Names, sep \in {<<>>, <<" ">>}}

AllKeys == SeqsUpTo(KeyChars, MaxKeyLen) \cup SpelledKeys

KeyValues ==
    {JArray(<<>>), JArray(<<"X", "X">>), JString("X"), JNumber("5"),
     JObject(EmptyObj), JNull}

PrefixEntries == {<<>>, << <<Spelling(NameB, NameB, <<" ">>), JArray(<<"Z">>)>> >>}

InitKey ==
    /\ InitCall
    /\ \E k \in AllKeys, v \in KeyValues, pre \in PrefixEntries :
          \/ input = TextOf("mappings", pre \o << <<k, v>> >>)
          \/ input = DataOf("mappings", pre \o << <<k, v>> >>)

NextKey ==
    \/ ParseJsonToEdgeMappings
    \/ ConvertEdgeMappings

SpecKey == InitKey /\ [][NextKey]_vars

(***************************************************************************)
(* One type definition under test, after nothing or after one valid        *)
(* definition: every field declaration over the Type Table's names and one *)
(* name outside it.                                                        *)
(***************************************************************************)
FieldNames == {"name", "age", "tags"}

TypeStrings == Range(TYPE_MAPPING_keys) \cup {"string"}

AllFieldMaps ==
    {f \in SeqsUpTo(FieldNames \X TypeStrings, MaxFields) : DistinctKeys(f)}

PrefixTypes ==
    {<<>>,
     << <<"Company", JObject(FieldsObj(<< <<"name", "str">> >>, TRUE, "A company"))>> >>}

InitTypes ==
    /\ InitCall
    /\ \E f \in AllFieldMaps, d \in Docstrings, pre \in PrefixTypes :
          LET m == pre \o << <<"Person", JObject(FieldsObj(f, d[1], d[2]))>> >>
          IN  \/ input = TextOf("types", m)
              \/ input = DataOf("types", m)

NextTypes ==
    \/ ParseJsonToEntityTypes
    \/ ParseJsonToEdgeTypes
    \/ CreateEntityTypesFromDict

SpecTypes == InitTypes /\ [][NextTypes]_vars

(***************************************************************************)
(* What the claims speak of.                                               *)
(***************************************************************************)
MappingCalls == {"parse_json_to_edge_mappings", "convert_edge_mappings"}

TypeCalls ==
    {"parse_json_to_entity_types", "parse_json_to_edge_types",
     "create_entity_types_from_dict"}

\* the text decodes to a JSON object (always so for a pre-parsed dict)
IsMapping == input.form = "data" \/ (input.text.wf /\ input.text.top = "object")

\* the entries as the input writes them, in input order
WrittenEntries ==
    IF input.form = "data" THEN input.data
    ELSE [i \in 1..Len(input.text.members) |->
            <<input.text.members[i][1], decode_value(input.text.members[i][2])>>]

\* the entries of the mapping the loop iterates over, in its order
IteratedEntries ==
    IF input.form = "data" THEN input.data
    ELSE json_loads(input.text).data

\* the 12 type names of the Type Table
SupportedTypeNames ==
    {"str", "int", "float", "bool", "list", "dict", "List[str]", "List[int]",
     "List[float]", "Dict[str, Any]", "Dict[str, str]", "Dict[str, int]"}

\* key is written ('X','Y') or ('X', 'Y') for names X, Y of the set
IsSpellingOf(key, X, Y) == key \in {Spelling(X, Y, <<>>), Spelling(X, Y, <<" ">>)}

SomeNames == {NameA, NameB}

HasPair(key) == \E X, Y \in SomeNames : IsSpellingOf(key, X, Y)

PairOf(key) == CHOOSE p \in SomeNames \X SomeNames : IsSpellingOf(key, p[1], p[2])

ValidMappingEntry(e) == HasPair(e[1]) /\ e[2].type = "list"

ValidTypeEntry(e) ==
    /\ e[2].type = "dict"
    /\ e[2].obj.has_fields
    /\ e[2].obj.fields_kind = "dict"
    /\ \A i \in 1..Len(e[2].obj.fields) :
          /\ e[2].obj.fields[i][2] \in SupportedTypeNames
          /\ e[2].obj.fields[i][1] \notin LeadingUnderscore

ValidEntry(e) ==
    IF input.family = "mappings" THEN ValidMappingEntry(e) ELSE ValidTypeEntry(e)

\* the index of the last entry of es whose key decodes to pair p
LastIndexOf(es, p) ==
    CHOOSE i \in 1..Len(es) :
        /\ PairOf(es[i][1]) = p
        /\ \A j \in (i + 1)..Len(es) : PairOf(es[j][1]) # p

\* the table has exactly one entry per pair the entries es decode to, and it
\* holds the list of the last of them
LastWins(table, es) ==
    /\ DistinctKeys(table)
    /\ {table[i][1] : i \in 1..Len(table)} = {PairOf(es[i][1]) : i \in 1..Len(es)}
    /\ \A i \in 1..Len(table) :
          table[i][2] = es[LastIndexOf(es, table[i][1])][2].items

\* C1 as stated: over valid entries the pair-mapping builder returns a table
\* with exactly one entry per distinct decoded pair, holding the list of the
\* last entry, in input order, whose key decodes to that pair.
C1_LastInputEntryWins ==
    (/\ called \in MappingCalls
     /\ IsMapping
     /\ \A i \in 1..Len(WrittenEntries) : ValidMappingEntry(WrittenEntries[i]))
    => (~outcome.raised /\ LastWins(outcome.table, WrittenEntries))

\* C1 amended: the same, with the entries taken in the order in which the
\* decoded mapping presents them (a key string repeated in JSON text counts
\* once, at the place of its first occurrence, with its last value).
C1_LastIteratedEntryWins ==
    (/\ called \in MappingCalls
     /\ IsMapping
     /\ \A i \in 1..Len(IteratedEntries) : ValidMappingEntry(IteratedEntries[i]))
    => (~outcome.raised /\ LastWins(outcome.table, IteratedEntries))

\* two spellings of one pair with different lists were both processed
C1_Witness ==
    /\ called \in MappingCalls
    /\ ~outcome.raised
    /\ Len(IteratedEntries) = 2
    /\ IteratedEntries[1][1] = Spelling(NameA, NameB, <<>>)
    /\ IteratedEntries[2][1] = Spelling(NameA, NameB, <<" ">>)
    /\ IteratedEntries[1][2].items = <<"X">>
    /\ outcome.table = << <<<<NameA, NameB>>, <<"Y">>>> >>

WellFormedInput ==
    /\ IsMapping
    /\ \A i \in 1..Len(IteratedEntries) : ValidEntry(IteratedEntries[i])

\* C5 as stated: parse_json_to_edge_types fails with the error category that
\* parse_json_to_entity_types raises on the same input; a field type outside
\* the Type Table makes it fail with TypeError.
C5_EdgeTypesSameErrorCategory ==
    (called = "parse_json_to_edge_types" /\ parse_json_to_entity_types(input.text).raised)
    => /\ outcome.raised
       /\ outcome.exc.cls = parse_json_to_entity_types(input.text).exc.cls

\* C6: on well-formed input parse_json_to_edge_types returns what
\* parse_json_to_entity_types returns: the same type names and, per name, the
\* same fields, field types and docstring.
C6_EdgeTypesEqualEntityTypes ==
    (called = "parse_json_to_edge_types" /\ WellFormedInput)
    => /\ ~outcome.raised
       /\ ~parse_json_to_entity_types(input.text).raised
       /\ outcome.table = parse_json_to_entity_types(input.text).table
       /\ Len(outcome.table) = Len(IteratedEntries)

\* edge types were built from two definitions, one with a docstring and two
\* fields
C6_Witness ==
    /\ called = "parse_json_to_edge_types"
    /\ WellFormedInput
    /\ Len(outcome.table) = 2
    /\ outcome.table[1][2].doc = "A person"
    /\ Len(outcome.table[1][2].fields) = 2
    /\ outcome.table[2][2].doc = DefaultDoc

\* C7: the pre-parsed variant applied to a mapping m and the text variant
\* applied to the JSON serialization of m end the same way: the same table,
\* or the same exception with the same message.
C7_TextAndDataVariantsAgree ==
    /\ called = "convert_edge_mappings"
          => outcome = parse_json_to_edge_mappings(json_dumps(input.data))
    /\ called = "create_entity_types_from_dict"
          => outcome = parse_json_to_entity_types(json_dumps(input.data))
    /\ (called \in {"parse_json_to_edge_mappings", "parse_json_to_entity_types"}
        /\ IsMapping /\ json_dumps(IteratedEntries) = input.text)
          => outcome = (IF called = "parse_json_to_edge_mappings"
                        THEN convert_edge_mappings(IteratedEntries)
                        ELSE create_entity_types_from_dict(IteratedEntries))

\* the pre-parsed pair-mapping variant failed on a value that is no list,
\* after a valid entry
C7_Witness ==
    /\ called = "convert_edge_mappings"
    /\ outcome.raised
    /\ Len(outcome.table) = 1
    /\ Len(input.data) >= 2
    /\ input.data[2][2].type = "str"
    /\ HasPair(input.data[2][1])

(***************************************************************************)
(* Claims about one entry under test (the last of the input).              *)
(***************************************************************************)
LastEntry == WrittenEntries[Len(WrittenEntries)]

\* sub occurs in s as a run of consecutive elements
Contains(s, sub) == \E i \in 1..(Len(s) + 1) : IsPrefixAt(s, sub, i)

\* C3: from a well-formed table of type definitions the record-type builder
\* returns one type per declared name; its fields are exactly the declared
\* ones, in order, each required and of the Type Table's type for its declared
\* type name; a non-empty docstring is carried by the type.
C3_WellFormedDefinitionsBuilt ==
    (called \in TypeCalls /\ WellFormedInput)
    => /\ ~outcome.raised
       /\ Len(outcome.table) = Len(IteratedEntries)
       /\ \A i \in 1..Len(IteratedEntries) :
             LET decl == IteratedEntries[i][2].obj
                 model == outcome.table[i][2]
             IN  /\ outcome.table[i][1] = IteratedEntries[i][1]
                 /\ model.name = IteratedEntries[i][1]
                 /\ Len(model.fields) = Len(decl.fields)
                 /\ \A j \in 1..Len(decl.fields) :
                       /\ model.fields[j].field = decl.fields[j][1]
                       /\ model.fields[j].required
                       /\ model.fields[j].annotation = TYPE_MAPPING[decl.fields[j][2]]
                 /\ (decl.has_doc /\ decl.docstring # "") => model.doc = decl.docstring

\* the type of the round trip was built: {name: str, age: int}, "A person"
C3_Witness ==
    /\ called \in TypeCalls
    /\ ~outcome.raised
    /\ LastEntry[2].obj.fields = << <<"name", "str">>, <<"age", "int">> >>
    /\ LastEntry[2].obj.docstring = "A person"
    /\ outcome.table[Len(outcome.table)][2].doc = "A person"
    /\ Len(outcome.table[Len(outcome.table)][2].fields) = 2

\* field j of definition i is the first thing wrong with the input: its type
\* name is outside the Type Table
FirstUnknownType(i, j) ==
    /\ \A h \in 1..(i - 1) : ValidTypeEntry(IteratedEntries[h])
    /\ IteratedEntries[i][2].type = "dict"
    /\ IteratedEntries[i][2].obj.has_fields
    /\ IteratedEntries[i][2].obj.fields_kind = "dict"
    /\ IteratedEntries[i][2].obj.fields[j][2] \notin SupportedTypeNames
    /\ \A h \in 1..(j - 1) : IteratedEntries[i][2].obj.fields[h][2] \in SupportedTypeNames

\* C4: a definition that declares a field whose type name is not in the Type
\* Table makes parse_json_to_entity_types and create_entity_types_from_dict
\* raise TypeError; the message names the field and the owning type and lists
\* every supported type name; the definition is never accepted.
C4_UnknownTypeRejected ==
    (called \in {"parse_json_to_entity_types", "create_entity_types_from_dict"} /\ IsMapping)
    => \A i \in 1..Len(IteratedEntries) :
          \A j \in 1..Len(IteratedEntries[i][2].obj.fields) :
             /\ IteratedEntries[i][2].obj.fields[j][2] \notin SupportedTypeNames
                   => outcome.raised
             /\ FirstUnknownType(i, j) =>
                   /\ outcome.raised
                   /\ outcome.exc.cls = "TypeError"
                   /\ IteratedEntries[i][2].obj.fields[j][1] \in Range(outcome.exc.msg)
                   /\ IteratedEntries[i][1] \in Range(outcome.exc.msg)
                   /\ SupportedTypeNames \subseteq Range(outcome.exc.msg)
                   /\ Len(outcome.table) = i - 1

\* the second field of the second definition had the unknown type
C4_Witness ==
    /\ called \in {"parse_json_to_entity_types", "create_entity_types_from_dict"}
    /\ Len(IteratedEntries) = 2
    /\ Len(IteratedEntries[2][2].obj.fields) = 2
    /\ FirstUnknownType(2, 2)
    /\ outcome.exc.cls = "TypeError"

\* the names X, Y that the key of the entry under test spells
SpelledPair ==
    CHOOSE p \in Names \X Names :
        LastEntry[1] \in {Spelling(p[1], p[2], <<>>), Spelling(p[1], p[2], <<" ">>)}

\* C8: a key written ('X', 'Y') or ('X','Y'), for names without quote
\* characters, commas or surrounding whitespace, decodes to the pair (X, Y):
\* the content splits on ', into exactly two parts and the entry is stored
\* under (X, Y).
C8_SpelledKeyDecodesToPair ==
    (called \in MappingCalls /\ LastEntry[1] \in SpelledKeys /\ LastEntry[2].type = "list")
    => /\ ~outcome.raised
       /\ Len(split(SliceTwoMinusTwo(LastEntry[1]), <<"'", ",">>)) = 2
       /\ Len(outcome.table) = Len(WrittenEntries)
       /\ outcome.table[Len(outcome.table)] = <<SpelledPair, LastEntry[2].items>>

\* a key with a space after the comma, whose first name ends with a
\* parenthesis, decoded
C8_Witness ==
    /\ called \in MappingCalls
    /\ ~outcome.raised
    /\ LastEntry[1] = Spelling(<<"A", ")">>, <<"A">>, <<" ">>)
    /\ outcome.table[Len(outcome.table)][1] = <<<<"A", ")">>, <<"A">>>>

\* the key does not start with (' or does not end with ')
Malformed(key) ==
    \/ Len(key) < 2
    \/ key[1] # "(" \/ key[2] # "'"
    \/ key[Len(key) - 1] # "'" \/ key[Len(key)] # ")"

\* C9: a key that does not start with (' or does not end with ') makes the
\* pair-mapping builder raise the key-format ValueError, whose message quotes
\* the key and the expected pattern, whatever the value; nothing is inserted
\* for the key.
C9_MalformedKeyRejected ==
    (called \in MappingCalls /\ Malformed(LastEntry[1]))
    => /\ outcome.raised
       /\ outcome.exc.cls = "ValueError"
       /\ outcome.exc.msg =
             <<"Invalid edge mapping key format: '">> \o LastEntry[1]
             \o <<"'. Expected format: \"('Source', 'Target')\"">>
       /\ Len(outcome.table) = Len(WrittenEntries) - 1

\* a key with the right start and the wrong end, with a list value, after a
\* valid entry
C9_Witness ==
    /\ called \in MappingCalls
    /\ outcome.raised
    /\ LastEntry[1] = <<"(", "'", "A", ")">>
    /\ LastEntry[2].type = "list"
    /\ Len(outcome.table) = 1

\* the key passes the format check and splits into two parts
WellFormedKey(key) ==
    /\ ~Malformed(key)
    /\ Len(split(SliceTwoMinusTwo(key), <<"'", ",">>)) = 2

\* C10: for a well-formed key, a value that is no list makes the builder
\* raise ValueError with a message that names the key and the type received,
\* and the pair is not inserted; a list (empty or with duplicates too) is
\* accepted and stored unchanged.
C10_ValueMustBeList ==
    (called \in MappingCalls /\ WellFormedKey(LastEntry[1]))
    => IF LastEntry[2].type # "list"
       THEN /\ outcome.raised
            /\ outcome.exc.cls = "ValueError"
            /\ Contains(outcome.exc.msg, <<"Edge list for key '">> \o LastEntry[1])
            /\ Contains(outcome.exc.msg,
                        <<"' must be a list, got: ", "<class '", LastEntry[2].type, "'>">>)
            /\ Len(outcome.table) = Len(WrittenEntries) - 1
       ELSE /\ ~outcome.raised
            /\ Len(outcome.table) = Len(WrittenEntries)
            /\ outcome.table[Len(outcome.table)][2] = LastEntry[2].items

\* a string value under a well-formed key was refused after a valid entry
C10_Witness ==
    /\ called \in MappingCalls
    /\ WellFormedKey(LastEntry[1])
    /\ LastEntry[2].type = "str"
    /\ outcome.raised
    /\ Len(outcome.table) = 1

====
